---- MODULE Spec2Model ----
(***************************************************************************)
(* Model of the skybox render pass of amethyst_renderer                    *)
(* (src/amethyst_renderer/src/pass/sky/mod.rs): DrawSkyBox::compile,       *)
(* DrawSkyBox::apply, load_cubemap and load_texture, together with the     *)
(* scene (entity/component storages, ActiveCamera, AssetStorage<Texture>,  *)
(* MaterialDefaults) they read.                                            *)
(*                                                                         *)
(* Option<T> is modelled as a sequence: None is <<>>, Some(v) is <<v>>.    *)
(* A panic (a failed unwrap) aborts the process: no action is enabled after.*)
(***************************************************************************)
EXTENDS Integers, Sequences, FiniteSets, TLC

None == <<>>
Some(v) == <<v>>

(* ------------------------------ bounds --------------------------------- *)
\* entities of the world
MaxEnts == 4
\* texture handles besides the material-defaults albedo handle
MaxHandles == 1
\* meshes the factory can allocate (caps the mesh identity counter)
MaxMeshes == 2

Ents == 1..MaxEnts
\* the scenes of the model put skyboxes on the odd entities and cameras and
\* transforms on the even ones
SkyEnts == {e \in Ents : e % 2 = 1}
CamEnts == {e \in Ents : e % 2 = 0}
\* handle of MaterialDefaults.0.albedo
AlbedoHandle == 0
Handles == 0..MaxHandles

(* ----------------------------- matrices -------------------------------- *)
\* A Matrix4 is a sequence of 4 rows of 4 integers, m[row][col].
Dim == 1..4

Identity4 ==
    << <<1, 0, 0, 0>>,
       <<0, 1, 0, 0>>,
       <<0, 0, 1, 0>>,
       <<0, 0, 0, 1>> >>

\* rotation of a quarter turn about Y followed by a translation
RotTrans4 ==
    << << 0, 0, 1, 2>>,
       << 0, 1, 0, 0>>,
       <<-1, 0, 0, 3>>,
       << 0, 0, 0, 1>> >>

\* a transform with a zero scale on Z: not invertible
Singular4 ==
    << <<1, 0, 0, 0>>,
       <<0, 1, 0, 5>>,
       <<0, 0, 0, 0>>,
       <<0, 0, 0, 1>> >>

Transforms == {Identity4, RotTrans4, Singular4}

\* the projection matrix of the camera carried by entity e (perspective shape)
CamProj(e) ==
    << <<e, 0,  0,  0>>,
       <<0, e,  0,  0>>,
       <<0, 0, -1, -2>>,
       <<0, 0, -1,  0>> >>

Sign(k) == IF k % 2 = 0 THEN 1 ELSE -1

Minor(m, i, j) ==
    [r \in 1..(Len(m) - 1) |->
        [c \in 1..(Len(m) - 1) |->
            m[IF r < i THEN r ELSE r + 1][IF c < j THEN c ELSE c + 1]]]

RECURSIVE Det(_)
RECURSIVE DetExpand(_, _)
DetExpand(m, j) ==
    IF j > Len(m) THEN 0
    ELSE Sign(1 + j) * m[1][j] * Det(Minor(m, 1, j)) + DetExpand(m, j + 1)

Det(m) == IF Len(m) = 1 THEN m[1][1] ELSE DetExpand(m, 1)

MatMul(a, b) ==
    [r \in Dim |-> [c \in Dim |->
        a[r][1] * b[1][c] + a[r][2] * b[2][c] + a[r][3] * b[3][c] + a[r][4] * b[4][c]]]

\* the inverse by cofactors: None for a singular matrix, else adjugate / determinant
InverseByCofactors(m) ==
    LET d == Det(m)
    IN  IF d = 0 THEN None
        ELSE Some([r \in Dim |-> [c \in Dim |->
                     (Sign(r + c) * Det(Minor(m, c, r))) \div d]])

\* the inverses of the transforms of the model, computed once
InverseTable == [m \in Transforms |-> InverseByCofactors(m)]

\* Matrix4::try_inverse
TryInverse(m) == InverseTable[m]

\* Matrix4 -> [[f32; 4]; 4]: nalgebra stores column-major, so arr[c][r] = m[r][c]
MatToArray(m) == [c \in Dim |-> [r \in Dim |-> m[r][c]]]

\* std140 layout of a mat4: its four columns, one vec4 after the other
Std140Mat(arr) == arr[1] \o arr[2] \o arr[3] \o arr[4]

\* the matrix a shader reads back from the 16 std140 floats of a mat4
MatOfStd140(flat) == [r \in Dim |-> [c \in Dim |-> flat[(c - 1) * 4 + r]]]

(* ------------------------------ state ---------------------------------- *)
VARIABLES
    active,     \* Option<Read<ActiveCamera>>: Option of the camera entity
    camera,     \* ReadStorage<Camera>: entity -> Option of [proj]
    global,     \* ReadStorage<GlobalTransform>: entity -> Option of Matrix4
    skybox,     \* ReadStorage<SkyBox>: entity -> Option of [texture]
    storage,    \* AssetStorage<Texture>: handle -> Option of Texture
    pending,    \* texture-load requests submitted and not yet processed
    mesh,       \* DrawSkyBox.mesh: Option<Mesh>
    effect,     \* the Effect handed to apply: its per-draw attachment lists
    trace,      \* what the running/last call did to the effect and the encoder
    ret         \* Option of the result of the last call, until the caller takes it

vars == <<active, camera, global, skybox, storage, pending, mesh, effect, trace, ret>>

scene == <<active, camera, global, skybox>>

(* --------------------------- the cube mesh ----------------------------- *)
SKYBOX_VERTICES ==
    << <<-1, 1, -1>>, <<-1, -1, -1>>, <<1, -1, -1>>,
       <<1, -1, -1>>, <<1, 1, -1>>, <<-1, 1, -1>>,
       <<-1, -1, 1>>, <<-1, -1, -1>>, <<-1, 1, -1>>,
       <<-1, 1, -1>>, <<-1, 1, 1>>, <<-1, -1, 1>>,
       <<1, -1, -1>>, <<1, -1, 1>>, <<1, 1, 1>>,
       <<1, 1, 1>>, <<1, 1, -1>>, <<1, -1, -1>>,
       <<-1, -1, 1>>, <<-1, 1, 1>>, <<1, 1, 1>>,
       <<1, 1, 1>>, <<1, -1, 1>>, <<-1, -1, 1>>,
       <<-1, 1, -1>>, <<1, 1, -1>>, <<1, 1, 1>>,
       <<1, 1, 1>>, <<-1, 1, 1>>, <<-1, 1, -1>>,
       <<-1, -1, -1>>, <<-1, -1, 1>>, <<1, -1, -1>>,
       <<1, -1, -1>>, <<-1, -1, 1>>, <<1, -1, 1>> >>

\* a plausible slip: the last triangle of the list authored with two corners swapped
SkyboxMeshDataFlipped ==
    [i \in 1..Len(SKYBOX_VERTICES) |->
        [position |-> SKYBOX_VERTICES[IF i = 35 THEN 36 ELSE IF i = 36 THEN 35 ELSE i]]]

\* compile: SKYBOX_VERTICES.iter().map(|v| PosOnly { position: v.clone() }).collect()
SkyboxMeshData ==
    [i \in 1..Len(SKYBOX_VERTICES) |-> [position |-> SKYBOX_VERTICES[i]]]

\* Mesh::build(data).build(factory): Some(mesh) on success, None on allocation failure
MeshBuild(data, id, ok) ==
    IF ok THEN Some([id |-> id, vertices |-> data]) ELSE None

\* Mesh::buffer(PosOnly::ATTRIBUTES): the mesh's vertex buffer when it is available
MeshBuffer(m, available) ==
    IF available THEN Some([mesh |-> m.id, layout |-> "PosOnly"]) ELSE None

\* Mesh::slice(): the whole vertex range of the mesh
MeshSlice(m) == [mesh |-> m.id, start |-> 0, end |-> Len(m.vertices)]

(* ------------------------------ the effect ----------------------------- *)
EmptyEffect == [vertex_bufs |-> <<>>, textures |-> <<>>, samplers |-> <<>>]

\* Effect::clear: empties the per-draw attachment lists
EffectClear(eff) == [eff EXCEPT !.vertex_bufs = <<>>, !.textures = <<>>, !.samplers = <<>>]

Event(op, e, eff, args, slice) ==
    [op |-> op, ent |-> e, eff |-> eff, args |-> args, slice |-> slice]

(* ---------------------------- the asset store -------------------------- *)
\* the request the renderer submits at start-up for MaterialDefaults.0.albedo
AlbedoData ==
    [variant |-> "Image",
     images  |-> << [rgba |-> << <<128, 128, 128, 255>> >>] >>,
     meta    |-> [srgb |-> FALSE, kind |-> [layout |-> "D2", edge |-> 1]]]

\* the texture the asset store builds from a processed request
TextureOf(h, data) ==
    [view    |-> [handle |-> h, what |-> "view"],
     sampler |-> [handle |-> h, what |-> "sampler"],
     kind    |-> data.meta.kind,
     srgb    |-> data.meta.srgb,
     faces   |-> Len(data.images)]

\* AssetStorage::get
StorageGet(store, h) == store[h]

\* Loader::load_from_data hands out the next unused handle
Allocated(h) == pending[h] # None \/ storage[h] # None
FreeHandles == {h \in Handles : ~Allocated(h)}
NextHandle == CHOOSE h \in FreeHandles : \A k \in FreeHandles : h <= k

(* --------------------------- camera resolution ------------------------- *)
\* pass::util::get_camera
GetCamera(act, cams, globs) ==
    LET valid(e) == cams[e] # None /\ globs[e] # None
        pair(e)  == Some([cam |-> cams[e][1], transform |-> globs[e][1]])
        joined   == {e \in CamEnts : valid(e)}
    IN  IF act # None /\ valid(act[1]) THEN pair(act[1])
        ELSE IF Cardinality(joined) = 1 THEN pair(CHOOSE e \in joined : TRUE)
        ELSE None

(* ------------------------------- apply --------------------------------- *)
\* a slip: the camera's transform uploaded as the view, its inversion forgotten
CameraArgsNoInverse(c) ==
    IF TryInverse(c.transform) = None THEN None
    ELSE Some([proj |-> MatToArray(c.cam.proj), view |-> MatToArray(c.transform)])

\* a slip: a transform that cannot be inverted replaced by the identity view
\* (unwrap_or_else) where the code unwraps
CameraArgsSingularIdentity(c) ==
    LET inv == TryInverse(c.transform)
    IN  Some([proj |-> MatToArray(c.cam.proj),
              view |-> MatToArray(IF inv = None THEN Identity4 ELSE inv[1])])

\* the closure of apply's map: proj and view of a resolved camera;
\* None when try_inverse().unwrap() panics
CameraArgs(c) ==
    LET inv == TryInverse(c.transform)
    IN  IF inv = None THEN None
        ELSE Some([proj |-> MatToArray(c.cam.proj), view |-> MatToArray(inv[1])])

\* a slip: zeroed matrices (a default value) where the identity is meant
VertexArgsOfZeroed(cam) ==
    IF cam # None THEN CameraArgs(cam[1])
    ELSE LET zero == [r \in Dim |-> [c \in Dim |-> 0]]
         IN  Some([proj |-> MatToArray(zero), view |-> MatToArray(zero)])

\* a slip: the projection left at the identity, only the view taken from the camera
VertexArgsOfViewOnly(cam) ==
    IF cam # None
    THEN LET a == CameraArgs(cam[1])
         IN  IF a = None THEN None
             ELSE Some([proj |-> MatToArray(Identity4), view |-> a[1].view])
    ELSE Some([proj |-> MatToArray(Identity4), view |-> MatToArray(Identity4)])

\* apply: vertex_args, from the resolved camera or identity/identity
VertexArgsOf(cam) ==
    IF cam # None THEN CameraArgs(cam[1])
    ELSE Some([proj |-> MatToArray(Identity4), view |-> MatToArray(Identity4)])

\* VertexArgs::std140
Std140(va) == [proj |-> Std140Mat(va.proj), view |-> Std140Mat(va.view)]

\* (&skybox).join(): the entities carrying a SkyBox, in entity order
RECURSIVE JoinFrom(_, _)
JoinFrom(sky, e) ==
    IF e > MaxEnts THEN <<>>
    ELSE IF e \in DOMAIN sky /\ sky[e] # None THEN <<e>> \o JoinFrom(sky, e + 1)
    ELSE JoinFrom(sky, e + 1)

SkyJoin(sky) == JoinFrom(sky, 1)

\* a slip: the two lookups in the wrong order, the default taken first
ResolveTextureDefaultFirst(store, sky, albedo) ==
    IF StorageGet(store, albedo) # None THEN StorageGet(store, albedo)
    ELSE StorageGet(store, sky.texture)

\* tex_storage.get(&sky.texture).or_else(|| tex_storage.get(&material_defaults.0.albedo))
ResolveTexture(store, sky, albedo) ==
    IF StorageGet(store, sky.texture) # None THEN StorageGet(store, sky.texture)
    ELSE StorageGet(store, albedo)

Last(s) == s[Len(s)]

\* the None arm of `match mesh.buffer(..)`: effect.clear(); return
NoBufferArm(e, eff) ==
    << Event("buffer_none", e, eff, None, None),
       Event("clear", e, EffectClear(eff), None, None) >>

\* a slip: the uniform block uploaded before the vertex buffer is pushed
BindAndUploadSwapped(e, eff, vbuf, va) ==
    LET e1 == [eff EXCEPT !.vertex_bufs = Append(@, vbuf)]
    IN  << Event("update_constant_buffer", e, eff, Some(Std140(va)), None),
           Event("bind_vbuf", e, e1, None, None) >>

\* the body of the loop after the vertex buffer was found, up to the texture lookup
BindAndUpload(e, eff, vbuf, va) ==
    LET e1 == [eff EXCEPT !.vertex_bufs = Append(@, vbuf)]
    IN  << Event("bind_vbuf", e, e1, None, None),
           Event("update_constant_buffer", e, e1, Some(Std140(va)), None) >>

\* a slip: only the texture and sampler lists emptied after the draw, the vertex buffers kept
BindTextureAndDrawPartialClear(e, eff, tex, m) ==
    LET e2 == [eff EXCEPT !.textures = Append(@, tex.view)]
        e3 == [e2 EXCEPT !.samplers = Append(@, tex.sampler)]
    IN  << Event("bind_texture", e, e2, None, None),
           Event("bind_sampler", e, e3, None, None),
           Event("draw", e, e3, None, Some(MeshSlice(m))),
           Event("clear", e, [e3 EXCEPT !.textures = <<>>, !.samplers = <<>>], None, None) >>

\* a slip: the effect.clear() that ends the loop body left out
BindTextureAndDrawNoClear(e, eff, tex, m) ==
    LET e2 == [eff EXCEPT !.textures = Append(@, tex.view)]
        e3 == [e2 EXCEPT !.samplers = Append(@, tex.sampler)]
    IN  << Event("bind_texture", e, e2, None, None),
           Event("bind_sampler", e, e3, None, None),
           Event("draw", e, e3, None, Some(MeshSlice(m))) >>

\* the body of the loop from the texture pushes to the clear
BindTextureAndDraw(e, eff, tex, m) ==
    LET e2 == [eff EXCEPT !.textures = Append(@, tex.view)]
        e3 == [e2 EXCEPT !.samplers = Append(@, tex.sampler)]
    IN  << Event("bind_texture", e, e2, None, None),
           Event("bind_sampler", e, e3, None, None),
           Event("draw", e, e3, None, Some(MeshSlice(m))),
           Event("clear", e, EffectClear(e3), None, None) >>

\* a slip: `continue` where the None arm returns
RECURSIVE ApplyLoopContinue(_, _, _, _, _, _)
ApplyLoopContinue(skies, i, eff, tr, va, bufs) ==
    IF i > Len(skies) THEN [outcome |-> "returned", eff |-> eff, trace |-> tr]
    ELSE
      LET e == skies[i] IN
      IF mesh = None
      THEN [outcome |-> "panicked", eff |-> eff,
            trace |-> Append(tr, Event("panic_no_mesh", e, eff, None, None))]
      ELSE
        LET vbuf == MeshBuffer(mesh[1], bufs[e]) IN
        IF vbuf = None
        THEN LET t == tr \o NoBufferArm(e, eff)
             IN  ApplyLoopContinue(skies, i + 1, Last(t).eff, t, va, bufs)
        ELSE
          LET t1  == tr \o BindAndUpload(e, eff, vbuf[1], va)
              tex == ResolveTexture(storage, skybox[e][1], AlbedoHandle)
          IN  IF tex = None
              THEN [outcome |-> "panicked", eff |-> Last(t1).eff,
                    trace |-> Append(t1, Event("panic_no_texture", e, Last(t1).eff, None, None))]
              ELSE LET t2 == t1 \o BindTextureAndDraw(e, Last(t1).eff, tex[1], mesh[1])
                   IN  ApplyLoopContinue(skies, i + 1, Last(t2).eff, t2, va, bufs)

\* a slip: an entity whose texture does not resolve skipped (`if let Some(texture)`)
\* where the code unwraps
RECURSIVE ApplyLoopSkipUntextured(_, _, _, _, _, _)
ApplyLoopSkipUntextured(skies, i, eff, tr, va, bufs) ==
    IF i > Len(skies) THEN [outcome |-> "returned", eff |-> eff, trace |-> tr]
    ELSE
      LET e == skies[i] IN
      IF mesh = None
      THEN [outcome |-> "panicked", eff |-> eff,
            trace |-> Append(tr, Event("panic_no_mesh", e, eff, None, None))]
      ELSE
        LET vbuf == MeshBuffer(mesh[1], bufs[e]) IN
        IF vbuf = None
        THEN LET t == tr \o NoBufferArm(e, eff)
             IN  [outcome |-> "returned", eff |-> Last(t).eff, trace |-> t]
        ELSE
          LET t1  == tr \o BindAndUpload(e, eff, vbuf[1], va)
              tex == ResolveTexture(storage, skybox[e][1], AlbedoHandle)
          IN  IF tex = None
              THEN ApplyLoopSkipUntextured(skies, i + 1, Last(t1).eff, t1, va, bufs)
              ELSE LET t2 == t1 \o BindTextureAndDraw(e, Last(t1).eff, tex[1], mesh[1])
                   IN  ApplyLoopSkipUntextured(skies, i + 1, Last(t2).eff, t2, va, bufs)

\* the `for sky in (&skybox).join()` loop, from its i-th entity on
RECURSIVE ApplyLoop(_, _, _, _, _, _)
ApplyLoop(skies, i, eff, tr, va, bufs) ==
    IF i > Len(skies) THEN [outcome |-> "returned", eff |-> eff, trace |-> tr]
    ELSE
      LET e == skies[i] IN
      IF mesh = None
      THEN [outcome |-> "panicked", eff |-> eff,
            trace |-> Append(tr, Event("panic_no_mesh", e, eff, None, None))]
      ELSE
        LET vbuf == MeshBuffer(mesh[1], bufs[e]) IN
        IF vbuf = None
        THEN LET t == tr \o NoBufferArm(e, eff)
             IN  [outcome |-> "returned", eff |-> Last(t).eff, trace |-> t]
        ELSE
          LET t1  == tr \o BindAndUpload(e, eff, vbuf[1], va)
              tex == ResolveTexture(storage, skybox[e][1], AlbedoHandle)
          IN  IF tex = None
              THEN [outcome |-> "panicked", eff |-> Last(t1).eff,
                    trace |-> Append(t1, Event("panic_no_texture", e, Last(t1).eff, None, None))]
              ELSE LET t2 == t1 \o BindTextureAndDraw(e, Last(t1).eff, tex[1], mesh[1])
                   IN  ApplyLoop(skies, i + 1, Last(t2).eff, t2, va, bufs)

\* a slip: the active-camera reference not handed to get_camera
ApplyFrameNoActive(bufs) ==
    LET cam == GetCamera(None, camera, global)
        va  == VertexArgsOf(cam)
    IN  IF va = None
        THEN [outcome |-> "panicked", eff |-> effect, camera |-> cam,
              trace |-> << Event("panic_singular", 0, effect, None, None) >>]
        ELSE LET r == ApplyLoop(SkyJoin(skybox), 1, effect, <<>>, va[1], bufs)
             IN  [outcome |-> r.outcome, eff |-> r.eff, camera |-> cam, trace |-> r.trace]

\* a slip: self.mesh.as_ref().unwrap() hoisted out of the loop, in front of it
ApplyFrameMeshFirst(bufs) ==
    LET cam == GetCamera(active, camera, global)
        va  == VertexArgsOf(cam)
    IN  IF va = None
        THEN [outcome |-> "panicked", eff |-> effect, camera |-> cam,
              trace |-> << Event("panic_singular", 0, effect, None, None) >>]
        ELSE IF mesh = None
        THEN [outcome |-> "panicked", eff |-> effect, camera |-> cam,
              trace |-> << Event("panic_no_mesh", 0, effect, None, None) >>]
        ELSE LET r == ApplyLoop(SkyJoin(skybox), 1, effect, <<>>, va[1], bufs)
             IN  [outcome |-> r.outcome, eff |-> r.eff, camera |-> cam, trace |-> r.trace]

\* DrawSkyBox::apply, for one frame
ApplyFrame(bufs) ==
    LET cam == GetCamera(active, camera, global)
        va  == VertexArgsOf(cam)
    IN  IF va = None
        THEN [outcome |-> "panicked", eff |-> effect, camera |-> cam,
              trace |-> << Event("panic_singular", 0, effect, None, None) >>]
        ELSE LET r == ApplyLoop(SkyJoin(skybox), 1, effect, <<>>, va[1], bufs)
             IN  [outcome |-> r.outcome, eff |-> r.eff, camera |-> cam, trace |-> r.trace]

\* a slip: self.mesh.take() where the code borrows with as_ref(): the frame draws with
\* the mesh and leaves the pass without one
ApplyTakesMesh ==
    /\ ret = None
    /\ \E bufs \in [SkyEnts -> BOOLEAN] :
         LET r == ApplyFrame(bufs)
         IN  /\ effect' = r.eff
             /\ trace' = r.trace
             /\ ret' = Some([op |-> "apply", outcome |-> r.outcome, camera |-> r.camera])
    /\ mesh' = None
    /\ UNCHANGED <<scene, storage, pending>>

Apply ==
    /\ ret = None
    /\ \E bufs \in [SkyEnts -> BOOLEAN] :
         LET r == ApplyFrame(bufs)
         IN  /\ effect' = r.eff
             /\ trace' = r.trace
             /\ ret' = Some([op |-> "apply", outcome |-> r.outcome, camera |-> r.camera])
    /\ UNCHANGED <<scene, storage, pending, mesh>>

(* ------------------------------ compile -------------------------------- *)
NextMeshId == IF mesh = None THEN 1 ELSE mesh[1].id + 1

\* effect.simple(..)...build(): Some(pipeline with empty attachment lists) or None on error
EffectBuild(ok) == IF ok THEN Some(EmptyEffect) ELSE None

\* a slip: the mesh given up when the pipeline build fails after the mesh was built
CompileBodyDropMesh(meshOk, effOk) ==
    LET built == MeshBuild(SkyboxMeshData, NextMeshId, meshOk)
    IN  IF built = None
        THEN [mesh |-> mesh, value |-> None, failed |-> "mesh"]
        ELSE [mesh |-> IF effOk THEN built ELSE None, value |-> EffectBuild(effOk),
              failed |-> IF effOk THEN "none" ELSE "effect"]

\* a slip: self.mesh assigned before the build's error is looked at
CompileBodyEager(meshOk, effOk) ==
    LET built == MeshBuild(SkyboxMeshData, NextMeshId, meshOk)
    IN  IF built = None
        THEN [mesh |-> built, value |-> None, failed |-> "mesh"]
        ELSE [mesh |-> built, value |-> EffectBuild(effOk),
              failed |-> IF effOk THEN "none" ELSE "effect"]

\* DrawSkyBox::compile: the mesh the pass holds afterwards and the Result it returns
\* (value = None stands for Err)
CompileBody(meshOk, effOk) ==
    LET built == MeshBuild(SkyboxMeshData, NextMeshId, meshOk)
    IN  IF built = None
        THEN [mesh |-> mesh, value |-> None, failed |-> "mesh"]
        ELSE [mesh |-> built, value |-> EffectBuild(effOk),
              failed |-> IF effOk THEN "none" ELSE "effect"]

Compile ==
    /\ ret = None
    /\ \E meshOk, effOk \in BOOLEAN :
         /\ meshOk => NextMeshId <= MaxMeshes
         /\ LET r == CompileBody(meshOk, effOk)
            IN  /\ mesh' = r.mesh
                /\ effect' = IF r.value # None THEN r.value[1] ELSE effect
                /\ ret' = Some([op |-> "compile",
                                outcome |-> IF r.value # None THEN "Ok" ELSE "Err",
                                value |-> r.value, failed |-> r.failed,
                                meshBefore |-> mesh])
    /\ trace' = <<>>
    /\ UNCHANGED <<scene, storage, pending>>

(* ----------------------------- load_cubemap ---------------------------- *)
\* the files on disk: what File::open, read_to_end and image::load_from_memory see
Files ==
    [p \in {"right.png", "left.png", "top.png", "bottom.png", "front.jpg", "back.jpg",
            "missing.png", "corrupt.png", "a_directory"} |->
        CASE p = "right.png"   -> [kind |-> "rgba8", pixels |-> << <<1, 0, 0, 9>> >>]
          [] p = "left.png"    -> [kind |-> "rgba8", pixels |-> << <<2, 0, 0, 9>> >>]
          [] p = "top.png"     -> [kind |-> "rgba8", pixels |-> << <<3, 0, 0, 9>> >>]
          [] p = "bottom.png"  -> [kind |-> "rgba8", pixels |-> << <<4, 0, 0, 9>> >>]
          [] p = "front.jpg"   -> [kind |-> "rgb8",  pixels |-> << <<5, 0, 0>> >>]
          [] p = "back.jpg"    -> [kind |-> "rgb8",  pixels |-> << <<6, 0, 0>> >>]
          [] p = "missing.png" -> [kind |-> "missing", pixels |-> <<>>]
          [] p = "corrupt.png" -> [kind |-> "garbage", pixels |-> <<>>]
          [] OTHER             -> [kind |-> "unreadable", pixels |-> <<>>]]

\* File::open(path): Some(file) unless the path cannot be opened
FileOpen(path) == IF Files[path].kind = "missing" THEN None ELSE Some(path)

\* file.read_to_end(&mut data), its Result ignored: a failed read leaves data empty
ReadToEnd(file) ==
    IF Files[file].kind = "unreadable" THEN <<>> ELSE << Files[file] >>

\* image::load_from_memory: Some(DynamicImage) or None when the bytes do not decode
LoadFromMemory(data) ==
    IF data = <<>> \/ data[1].kind = "garbage" THEN None
    ELSE Some([color |-> IF data[1].kind = "rgba8" THEN "ImageRgba8" ELSE "ImageRgb8",
               pixels |-> data[1].pixels])

\* DynamicImage::to_rgba: an opaque alpha channel is added
ToRgba(image) ==
    [i \in 1..Len(image.pixels) |->
        <<image.pixels[i][1], image.pixels[i][2], image.pixels[i][3], 255>>]

\* a slip: an image that does not decode replaced by an empty one, not a panic
LoadTextureLenient(path) ==
    LET file == FileOpen(path) IN
    IF file = None THEN None
    ELSE LET image == LoadFromMemory(ReadToEnd(file[1])) IN
         IF image = None THEN Some([rgba |-> <<>>])
         ELSE Some([rgba |-> IF image[1].color = "ImageRgba8"
                             THEN image[1].pixels ELSE ToRgba(image[1])])

\* load_texture: Some(ImageData), or None when one of its unwraps panics
LoadTexture(path) ==
    LET file == FileOpen(path) IN
    IF file = None THEN None
    ELSE LET image == LoadFromMemory(ReadToEnd(file[1])) IN
         IF image = None THEN None
         ELSE Some([rgba |-> IF image[1].color = "ImageRgba8"
                             THEN image[1].pixels ELSE ToRgba(image[1])])

\* a slip: the six faces packed in the reverse of the order given
CubemapDataReversed(names, size) ==
    LET data == [i \in 1..6 |-> LoadTexture(names[7 - i])]
    IN  IF \E i \in 1..6 : data[i] = None THEN None
        ELSE Some([variant |-> "CubeImage",
                   images  |-> [i \in 1..6 |-> data[i][1]],
                   meta    |-> [srgb |-> TRUE, kind |-> [layout |-> "Cube", edge |-> size]]])

\* load_cubemap up to the call of the loader: Some(TextureData::CubeImage(data, meta)),
\* or None when a load_texture panicked
CubemapData(names, size) ==
    LET data == [i \in 1..6 |-> LoadTexture(names[i])]
    IN  IF \E i \in 1..6 : data[i] = None THEN None
        ELSE Some([variant |-> "CubeImage",
                   images  |-> [i \in 1..6 |-> data[i][1]],
                   meta    |-> [srgb |-> TRUE, kind |-> [layout |-> "Cube", edge |-> size]]])

FaceNames == <<"right.png", "left.png", "top.png", "bottom.png", "front.jpg", "back.jpg">>
Reversed(s) == [i \in 1..Len(s) |-> s[Len(s) + 1 - i]]
BadPaths == {"missing.png", "corrupt.png", "a_directory"}

\* the name arrays load_cubemap is called with
NameInputs ==
    {FaceNames, Reversed(FaceNames)}
        \cup {[FaceNames EXCEPT ![i] = b] : i \in 1..6, b \in BadPaths}

\* the edge sizes load_cubemap is called with
Sizes == {1, 512}

LoadCubemap ==
    /\ ret = None
    /\ \E names \in NameInputs, size \in Sizes :
         LET data == CubemapData(names, size) IN
         IF data = None
         THEN /\ ret' = Some([op |-> "load_cubemap", outcome |-> "panicked",
                              names |-> names, size |-> size, handle |-> None])
              /\ UNCHANGED pending
         ELSE /\ FreeHandles # {}
              /\ pending' = [pending EXCEPT ![NextHandle] = data]
              /\ ret' = Some([op |-> "load_cubemap", outcome |-> "returned",
                              names |-> names, size |-> size, handle |-> Some(NextHandle)])
    /\ UNCHANGED <<scene, storage, mesh, effect, trace>>

(* --------------------------- the environment --------------------------- *)
\* the asset store finishes a submitted load
ProcessAsset ==
    /\ ret = None
    /\ \E h \in Handles :
         /\ pending[h] # None
         /\ storage' = [storage EXCEPT ![h] = Some(TextureOf(h, pending[h][1]))]
         /\ pending' = [pending EXCEPT ![h] = None]
    /\ UNCHANGED <<scene, mesh, effect, trace, ret>>

\* the transform a camera entity is given, and the texture a skybox entity points at
TransformsOf(e) ==
    IF e % 4 = 2 THEN {Identity4, RotTrans4} ELSE {RotTrans4, Singular4}
SkyHandlesOf(e) == {1 + (((e - 1) \div 2) % MaxHandles)}

SetActive ==
    /\ ret = None
    /\ \E a \in {None} \cup {Some(e) : e \in CamEnts} :
         /\ a # active
         /\ active' = a
    /\ UNCHANGED <<camera, global, skybox, storage, pending, mesh, effect, trace, ret>>

SetCamera ==
    /\ ret = None
    /\ \E e \in CamEnts :
         camera' = [camera EXCEPT ![e] = IF @ = None THEN Some([proj |-> CamProj(e)]) ELSE None]
    /\ UNCHANGED <<active, global, skybox, storage, pending, mesh, effect, trace, ret>>

SetTransform ==
    /\ ret = None
    /\ \E e \in CamEnts :
         \E t \in {None} \cup {Some(m) : m \in TransformsOf(e)} :
            /\ t # global[e]
            /\ global' = [global EXCEPT ![e] = t]
    /\ UNCHANGED <<active, camera, skybox, storage, pending, mesh, effect, trace, ret>>

SetSkyBox ==
    /\ ret = None
    /\ \E e \in SkyEnts :
         \E s \in {None} \cup {Some([texture |-> h]) : h \in SkyHandlesOf(e)} :
            /\ s # skybox[e]
            /\ skybox' = [skybox EXCEPT ![e] = s]
    /\ UNCHANGED <<active, camera, global, storage, pending, mesh, effect, trace, ret>>

\* the caller takes the result of the last call; after a panic there is no caller left
Return ==
    /\ ret # None
    /\ ret[1].outcome # "panicked"
    /\ ret' = None
    /\ trace' = <<>>
    /\ UNCHANGED <<scene, storage, pending, mesh, effect>>

(* --------------------------- specifications ---------------------------- *)
EmptyScene ==
    /\ active = None
    /\ camera = [e \in CamEnts |-> None]
    /\ global = [e \in CamEnts |-> None]
    /\ skybox = [e \in SkyEnts |-> None]

NewPass ==
    /\ mesh = None
    /\ effect = EmptyEffect
    /\ trace = <<>>
    /\ ret = None

\* the renderer is set up and the scene's cubemaps have been requested
Init ==
    /\ EmptyScene
    /\ NewPass
    /\ storage = [h \in Handles |-> None]
    /\ pending = [h \in Handles |->
                    IF h = AlbedoHandle THEN Some(AlbedoData)
                    ELSE CubemapData(FaceNames, 512)]

Next ==
    \/ Compile
    \/ Apply
    \/ Return
    \/ ProcessAsset
    \/ SetActive
    \/ SetCamera
    \/ SetTransform
    \/ SetSkyBox

Spec == Init /\ [][Next]_vars

\* the renderer is set up and no cubemap has been requested yet
LoaderInit ==
    /\ EmptyScene
    /\ NewPass
    /\ storage = [h \in Handles |-> None]
    /\ pending = [h \in Handles |-> IF h = AlbedoHandle THEN Some(AlbedoData) ELSE None]

LoaderNext ==
    \/ LoadCubemap
    \/ ProcessAsset
    \/ Return

LoaderSpec == LoaderInit /\ [][LoaderNext]_vars

\* the caller goes on after a call returns, and the asset store processes what it was given
LoaderLive == LoaderSpec /\ WF_vars(ProcessAsset) /\ WF_vars(Return)

(* ------------------------------- claims -------------------------------- *)
IsApply == ret # None /\ ret[1].op = "apply"
IsCompile == ret # None /\ ret[1].op = "compile"
IsLoad == ret # None /\ ret[1].op = "load_cubemap"
Aborted == ret # None /\ ret[1].outcome = "panicked"

ListsEmpty(eff) ==
    eff.vertex_bufs = <<>> /\ eff.textures = <<>> /\ eff.samplers = <<>>

TraceIdx == 1..Len(trace)

\* the entities apply issued a draw for, in the order of the draws
DrawnEnts ==
    LET d == SelectSeq(trace, LAMBDA ev : ev.op = "draw")
    IN  [i \in 1..Len(d) |-> d[i].ent]

\* C1: after every draw attempt of apply (a completed draw, or the abort on a missing
\* vertex buffer) the effect's vertex-buffer, texture and sampler lists are empty, and
\* they are empty whenever apply has returned and between calls.
C1_EffectClearedAfterDraw ==
    /\ IsApply =>
         \A i \in TraceIdx :
            trace[i].op \in {"draw", "buffer_none"} =>
               /\ i < Len(trace)
               /\ trace[i + 1].op = "clear"
               /\ ListsEmpty(trace[i + 1].eff)
    /\ ~Aborted => ListsEmpty(effect)

\* a frame that drew one entity and then aborted on the next one's missing buffer
C1_Witness ==
    /\ IsApply
    /\ ret[1].outcome = "returned"
    /\ \E i, j \in TraceIdx :
          i < j /\ trace[i].op = "draw" /\ trace[j].op = "buffer_none"

\* C2: when the vertex buffer is unavailable for an entity, apply clears the effect and
\* returns normally at once: nothing follows the clear, no draw is issued for that
\* entity or a later one, and the lookup is not repeated.
C2_AbortOnMissingBuffer ==
    IsApply =>
       \A i \in TraceIdx :
          trace[i].op = "buffer_none" =>
             /\ Len(trace) = i + 1
             /\ trace[i + 1].op = "clear"
             /\ ListsEmpty(trace[i + 1].eff)
             /\ ret[1].outcome = "returned"
             /\ \A j \in TraceIdx :
                   /\ trace[j].op = "draw" => trace[j].ent < trace[i].ent
                   /\ trace[j].op \in {"buffer_none", "bind_vbuf"} /\ j # i
                        => trace[j].ent < trace[i].ent

\* the buffer was missing for the first of two skybox entities
C2_Witness ==
    /\ IsApply
    /\ \E i \in TraceIdx :
          /\ trace[i].op = "buffer_none"
          /\ \E e \in SkyEnts : skybox[e] # None /\ e > trace[i].ent

Resolvable(e) ==
    storage[skybox[e][1].texture] # None \/ storage[AlbedoHandle] # None

\* C3: with no camera resolved, every upload is proj = identity, view = identity, the
\* frame does not fail on the camera, and (mesh present, buffers available, textures
\* resolvable) every skybox entity is drawn.
C3_NoCameraIdentity ==
    (IsApply /\ ret[1].camera = None) =>
       /\ \A i \in TraceIdx :
             /\ trace[i].op # "panic_singular"
             /\ trace[i].op = "update_constant_buffer" =>
                   /\ MatOfStd140(trace[i].args[1].proj) = Identity4
                   /\ MatOfStd140(trace[i].args[1].view) = Identity4
       /\ ( /\ mesh # None
            /\ \A i \in TraceIdx : trace[i].op # "buffer_none"
            /\ \A e \in SkyEnts : skybox[e] # None => Resolvable(e) )
          => /\ ret[1].outcome = "returned"
             /\ DrawnEnts = SkyJoin(skybox)

\* two skybox entities drawn in a frame without a camera
C3_Witness ==
    /\ IsApply
    /\ ret[1].camera = None
    /\ Len(DrawnEnts) = 2
    /\ \E i \in TraceIdx : trace[i].op = "update_constant_buffer"

\* C4: every draw binds the texture and sampler of the entity's own handle when the
\* store resolves it, else those of the default albedo handle; an entity whose buffer
\* was bound and whose own or default texture resolves is drawn.
C4_TextureFallback ==
    IsApply =>
       \A i \in TraceIdx :
          LET own == skybox[trace[i].ent][1].texture
              bound == IF storage[own] # None THEN own ELSE AlbedoHandle
          IN  /\ trace[i].op = "draw" =>
                    /\ storage[bound] # None
                    /\ Last(trace[i].eff.textures) = [handle |-> bound, what |-> "view"]
                    /\ Last(trace[i].eff.samplers) = [handle |-> bound, what |-> "sampler"]
              /\ (trace[i].op = "bind_vbuf" /\ storage[bound] # None) =>
                    \E j \in TraceIdx :
                       j > i /\ trace[j].op = "draw" /\ trace[j].ent = trace[i].ent

\* a draw that used the default texture because the entity's own did not resolve
C4_Witness ==
    /\ IsApply
    /\ \E i \in TraceIdx :
          /\ trace[i].op = "draw"
          /\ storage[skybox[trace[i].ent][1].texture] = None
          /\ Last(trace[i].eff.textures).handle = AlbedoHandle

\* C5: with a camera resolved, every upload has proj = the camera's projection and
\* view = the inverse of the camera's transform (view * transform = transform * view
\* = identity); an identity transform gives view = identity.
C5_CameraArgs ==
    (IsApply /\ ret[1].camera # None) =>
       \A i \in TraceIdx :
          trace[i].op = "update_constant_buffer" =>
             LET c == ret[1].camera[1]
                 proj == MatOfStd140(trace[i].args[1].proj)
                 view == MatOfStd140(trace[i].args[1].view)
             IN  /\ proj = c.cam.proj
                 /\ MatMul(view, c.transform) = Identity4
                 /\ MatMul(c.transform, view) = Identity4
                 /\ c.transform = Identity4 => view = Identity4

\* an upload for a camera that is rotated and translated
C5_Witness ==
    /\ IsApply
    /\ ret[1].camera # None
    /\ ret[1].camera[1].transform = RotTrans4
    /\ \E i \in TraceIdx : trace[i].op = "update_constant_buffer"

Sub3(a, b) == <<a[1] - b[1], a[2] - b[2], a[3] - b[3]>>
Cross3(a, b) ==
    <<a[2] * b[3] - a[3] * b[2], a[3] * b[1] - a[1] * b[3], a[1] * b[2] - a[2] * b[1]>>
Dot3(a, b) == a[1] * b[1] + a[2] * b[2] + a[3] * b[3]

\* the k-th corner (1..3) of the t-th triangle of a vertex list
Corner(vs, t, k) == vs[3 * (t - 1) + k].position
TriNormal(vs, t) ==
    Cross3(Sub3(Corner(vs, t, 2), Corner(vs, t, 1)), Sub3(Corner(vs, t, 3), Corner(vs, t, 1)))
\* positive when the normal points away from the cube centre, negative when towards it
TriOrient(vs, t) == Dot3(TriNormal(vs, t), Corner(vs, t, 1))
InPlane(vs, t, axis, side) == \A k \in 1..3 : Corner(vs, t, k)[axis] = side

\* the geometry of a vertex list: 36 vertices with every coordinate in {-1, 1}, forming
\* 12 non-degenerate triangles, each in one face plane, two per face, all with the same
\* orientation relative to the cube centre
CubeGeometry(vs) ==
    /\ Len(vs) = 36
    /\ \A i \in 1..Len(vs) : \A k \in 1..3 : vs[i].position[k] \in {-1, 1}
    /\ \A t \in 1..12 :
          /\ TriNormal(vs, t) # <<0, 0, 0>>
          /\ \E axis \in 1..3, side \in {-1, 1} : InPlane(vs, t, axis, side)
    /\ \A axis \in 1..3, side \in {-1, 1} :
          Cardinality({t \in 1..12 : InPlane(vs, t, axis, side)}) = 2
    /\ \/ \A t \in 1..12 : TriOrient(vs, t) < 0
       \/ \A t \in 1..12 : TriOrient(vs, t) > 0

\* the geometry of the vertex list compile hands to the mesh builder
CompiledGeometry == CubeGeometry(SkyboxMeshData)

\* C6: the mesh compile builds holds the vertex list of SKYBOX_VERTICES, which has the
\* cube geometry above (36 vertices, 12 triangles, two per face, consistent winding);
\* a later compile builds the same vertex list as the one before.
C6_CubeMesh ==
    (IsCompile /\ mesh # None) =>
       /\ mesh[1].vertices = SkyboxMeshData
       /\ CompiledGeometry
       /\ ret[1].meshBefore # None => mesh[1].vertices = ret[1].meshBefore[1].vertices

\* a second successful mesh build, replacing an earlier mesh
C6_Witness ==
    /\ IsCompile
    /\ ret[1].failed # "mesh"
    /\ ret[1].meshBefore # None
    /\ mesh # None

\* a path that opens, reads and decodes
Loadable(p) == Files[p].kind \in {"rgba8", "rgb8"}

LoadCalled == ret = None /\ ret' # None /\ ret'[1].op = "load_cubemap"

C7_Step ==
    (LoadCalled /\ \E i \in 1..6 : ~Loadable(ret'[1].names[i])) =>
       /\ ret'[1].outcome = "panicked"
       /\ ret'[1].handle = None
       /\ pending' = pending
       /\ storage' = storage

C7_NoPartial ==
    \A h \in Handles :
       (pending[h] # None /\ pending[h][1].variant = "CubeImage") =>
          /\ Len(pending[h][1].images) = 6
          /\ \A i \in 1..6 : Len(pending[h][1].images[i].rgba) > 0

\* C7: a load_cubemap call with a path that does not open or decode aborts, returns no
\* handle and submits nothing; no cubemap request with fewer than six decoded faces exists.
C7_AllOrNothing == [][C7_Step]_vars /\ []C7_NoPartial

\* the call aborted on its sixth path, after five faces had been loaded
C7_Witness ==
    /\ IsLoad
    /\ ret[1].outcome = "panicked"
    /\ ret[1].names[6] \in BadPaths

\* the RGBA pixels load_texture is to produce for a loadable path
DecodedRgba(p) ==
    IF Files[p].kind = "rgba8" THEN Files[p].pixels
    ELSE [i \in 1..Len(Files[p].pixels) |-> Files[p].pixels[i] \o <<255>>]

C8_Step ==
    (LoadCalled /\ \A i \in 1..6 : Loadable(ret'[1].names[i])) =>
       /\ ret'[1].outcome = "returned"
       /\ ret'[1].handle # None
       /\ LET h == ret'[1].handle[1] IN
          /\ h \in Handles /\ pending[h] = None /\ storage[h] = None
          /\ pending'[h] # None
          /\ pending'[h][1].variant = "CubeImage"
          /\ Len(pending'[h][1].images) = 6
          /\ \A i \in 1..6 : pending'[h][1].images[i].rgba = DecodedRgba(ret'[1].names[i])
          /\ pending'[h][1].meta = [srgb |-> TRUE,
                                    kind |-> [layout |-> "Cube", edge |-> ret'[1].size]]
          /\ \A k \in Handles \ {h} : pending'[k] = pending[k]
       /\ storage' = storage

C8_Resolves ==
    \A h \in Handles \ {AlbedoHandle} : \A n \in Sizes :
       (pending[h] # None /\ pending[h][1].meta.kind.edge = n)
          ~> \/ Aborted
             \/ /\ storage[h] # None
                /\ storage[h][1].kind = [layout |-> "Cube", edge |-> n]
                /\ storage[h][1].srgb
                /\ storage[h][1].faces = 6

\* C8: a load_cubemap call with six loadable paths and edge N submits exactly one request,
\* the six decoded RGBA images in the order given with sRGB metadata and kind Cube(N),
\* and returns its handle without waiting; the handle later resolves to a texture of kind
\* Cube(N) with sRGB metadata (as long as the process has not aborted).
C8_CubemapRequest == [][C8_Step]_vars /\ C8_Resolves

\* a handle returned by load_cubemap has resolved to a cube texture of edge 512
C8_Witness ==
    \E h \in Handles \ {AlbedoHandle} :
       /\ storage[h] # None
       /\ storage[h][1].kind = [layout |-> "Cube", edge |-> 512]
       /\ storage[h][1].srgb

ValidCam(e) == camera[e] # None /\ global[e] # None
PairOf(e) == [cam |-> camera[e][1], transform |-> global[e][1]]
ValidCams == {e \in CamEnts : ValidCam(e)}

C10_CompileFailure ==
    IsCompile =>
       /\ ret[1].failed # "none" => (ret[1].outcome = "Err" /\ ret[1].value = None)
       /\ ret[1].outcome = "Ok" => (ret[1].failed = "none" /\ ret[1].value # None)
       /\ ret[1].failed = "mesh" => mesh = ret[1].meshBefore

\* the mesh build failed in a compile of a pass that already held a mesh
C10_Witness ==
    /\ IsCompile
    /\ ret[1].failed = "mesh"
    /\ ret[1].meshBefore # None
    /\ mesh = ret[1].meshBefore

\* a step of compile in which the mesh build succeeded
CompileBuiltMesh ==
    /\ ret = None /\ ret' # None
    /\ ret'[1].op = "compile"
    /\ ret'[1].failed # "mesh"

\* the statement as first made: once the pass holds a mesh, that mesh object is never
\* replaced or rebuilt, whatever compile and apply calls follow
C11_MeshNeverReplaced == [][mesh # None => mesh' = mesh]_vars

C11_Step ==
    /\ mesh' # mesh =>
          /\ CompileBuiltMesh
          /\ mesh' # None
          /\ mesh'[1].vertices = SkyboxMeshData
    /\ mesh # None =>
          /\ mesh' # None
          /\ mesh'[1].vertices = mesh[1].vertices
    /\ CompileBuiltMesh => (mesh' # None /\ mesh' # mesh)

\* C11 (amended): a new pass holds no mesh; the pass's mesh changes only in a compile whose
\* mesh build succeeds, and every such compile replaces it by a newly built mesh object
\* with the vertex list of SKYBOX_VERTICES; apply and a compile whose mesh build fails
\* leave the mesh alone, and once a mesh is held one is always held, with the same
\* vertex list.
C11_MeshReplacedOnlyByCompile == (mesh = None) /\ [][C11_Step]_vars

\* a second compile has put a new mesh object in the place of the one the pass held
C11_Witness ==
    /\ IsCompile
    /\ ret[1].meshBefore # None
    /\ mesh # None
    /\ mesh[1].id # ret[1].meshBefore[1].id

\* the steps of one entity's draw, in the order the claim gives
DrawSteps ==
    << "bind_vbuf", "update_constant_buffer", "bind_texture", "bind_sampler", "draw", "clear" >>

\* the mesh is there, every vertex-buffer lookup of the frame succeeded, every skybox
\* entity's own or default texture resolves, and the camera could be inverted
FrameDrawable ==
    /\ IsApply
    /\ mesh # None
    /\ \A i \in TraceIdx : trace[i].op \notin {"buffer_none", "panic_singular"}
    /\ \A e \in SkyEnts : skybox[e] # None => Resolvable(e)

\* C12: with the vertex buffer ready and every texture resolvable, the frame is exactly,
\* for each skybox entity in iteration order: bind vertex buffer, upload VertexArgs, bind
\* texture, bind sampler, draw with the slice of the pass's cube mesh, clear; one draw
\* per entity, and entity i's clear comes right before entity i+1's vertex-buffer bind.
C12_DrawSequence ==
    FrameDrawable =>
       LET skies == SkyJoin(skybox) IN
       /\ ret[1].outcome = "returned"
       /\ Len(trace) = Len(DrawSteps) * Len(skies)
       /\ \A k \in 1..Len(skies) : \A j \in 1..Len(DrawSteps) :
             LET ev == trace[Len(DrawSteps) * (k - 1) + j] IN
             /\ ev.op = DrawSteps[j]
             /\ ev.ent = skies[k]
             /\ ev.op = "draw" => ev.slice = Some(MeshSlice(mesh[1]))
             /\ ev.op = "update_constant_buffer" => ev.args # None
       /\ DrawnEnts = skies

\* two skybox entities drawn one after the other in a frame with a camera
C12_Witness ==
    /\ FrameDrawable
    /\ ret[1].camera # None
    /\ Len(SkyJoin(skybox)) = 2
    /\ Len(trace) = 12

\* the skybox entities whose own handle and the default albedo handle both do not resolve
Unresolvable == {e \in SkyEnts : skybox[e] # None /\ ~Resolvable(e)}

\* C13: when neither a skybox entity's handle nor the default albedo handle resolves,
\* apply aborts fatally at that entity's texture lookup: the frame ends there with a
\* panic, no draw is issued for that entity or a later one, and no draw is ever issued
\* with an empty texture or sampler list.
C13_NoTextureAbort ==
    IsApply =>
       /\ \A e \in Unresolvable :
             /\ \A i \in TraceIdx : trace[i].op = "draw" => trace[i].ent < e
             /\ (\E i \in TraceIdx : trace[i].op = "bind_vbuf" /\ trace[i].ent = e) =>
                   /\ ret[1].outcome = "panicked"
                   /\ Last(trace).op = "panic_no_texture"
                   /\ Last(trace).ent = e
                   /\ \A i \in TraceIdx : trace[i].ent <= e
       /\ \A i \in TraceIdx :
             /\ trace[i].op = "draw" =>
                   (trace[i].eff.textures # <<>> /\ trace[i].eff.samplers # <<>>)
             /\ trace[i].op = "panic_no_texture" => trace[i].ent \in Unresolvable

\* the frame aborted at the first of two skybox entities, neither texture having resolved
C13_Witness ==
    /\ IsApply
    /\ ret[1].outcome = "panicked"
    /\ Last(trace).op = "panic_no_texture"
    /\ \E e \in Unresolvable : e > Last(trace).ent

\* the determinant of each transform a camera can be given
DetTable == [m \in Transforms |-> Det(m)]

\* the camera apply resolved has a transform that cannot be inverted
SingularCamera ==
    /\ IsApply
    /\ ret[1].camera # None
    /\ DetTable[ret[1].camera[1].transform] = 0

\* C14: when the resolved camera's transform is singular, apply aborts with a panic before
\* it binds a vertex buffer, uploads a uniform or issues a draw, with or without a skybox
\* entity in the scene; apply aborts this way in no other case.
C14_SingularAbort ==
    /\ SingularCamera =>
          /\ ret[1].outcome = "panicked"
          /\ Len(trace) = 1
          /\ trace[1].op = "panic_singular"
          /\ trace[1].eff = effect
    /\ IsApply =>
          \A i \in TraceIdx : trace[i].op = "panic_singular" => SingularCamera

\* the frame aborted on a singular camera transform with a mesh and a skybox entity there
C14_Witness ==
    /\ SingularCamera
    /\ ret[1].outcome = "panicked"
    /\ mesh # None
    /\ SkyJoin(skybox) # <<>>

\* the camera of the current frame, from the active reference, the cameras and the
\* transforms as they are now
FrameCamera ==
    IF active # None /\ ValidCam(active[1]) THEN Some(PairOf(active[1]))
    ELSE IF Cardinality(ValidCams) = 1 THEN Some(PairOf(CHOOSE e \in ValidCams : TRUE))
    ELSE None

\* proj and view are the matrices the current frame's camera asks for
ArgsOfFrameCamera(proj, view) ==
    IF FrameCamera = None
    THEN proj = Identity4 /\ view = Identity4
    ELSE /\ proj = FrameCamera[1].cam.proj
         /\ MatMul(view, FrameCamera[1].transform) = Identity4

Uploads == SelectSeq(trace, LAMBDA ev : ev.op = "update_constant_buffer")

\* C15: the VertexArgs uploaded in a frame is a function of that frame's active-camera
\* reference, cameras and transforms only: whatever frames and scene changes came before,
\* every upload of the frame carries the projection and the inverse transform of the
\* camera these resolve to now (identity/identity when they resolve to none), and all
\* uploads of one frame carry the same value.
C15_VertexArgsPerFrame ==
    IsApply =>
       /\ \A i \in 1..Len(Uploads) :
             /\ Uploads[i].args # None
             /\ ArgsOfFrameCamera(MatOfStd140(Uploads[i].args[1].proj),
                                  MatOfStd140(Uploads[i].args[1].view))
       /\ \A i, j \in 1..Len(Uploads) : Uploads[i].args = Uploads[j].args

\* two uploads in a frame whose camera is the only valid one, no active reference set
C15_Witness ==
    /\ IsApply
    /\ active = None
    /\ FrameCamera # None
    /\ FrameCamera[1].transform = RotTrans4
    /\ Len(Uploads) = 2

\* the handle whose texture is the one of skybox entity e: its own when it resolves,
\* the default albedo otherwise
HandleOf(e) ==
    IF storage[skybox[e][1].texture] # None THEN skybox[e][1].texture ELSE AlbedoHandle

\* C16: at every draw of apply the effect holds exactly one vertex buffer (the pass's
\* mesh's), exactly one texture and exactly one sampler (those of the entity drawn);
\* nothing is left in the lists from an earlier entity or an earlier frame.
C16_OneBindingPerDraw ==
    IsApply =>
       \A i \in TraceIdx :
          trace[i].op = "draw" =>
             /\ trace[i].eff.vertex_bufs = << [mesh |-> mesh[1].id, layout |-> "PosOnly"] >>
             /\ trace[i].eff.textures = << [handle |-> HandleOf(trace[i].ent), what |-> "view"] >>
             /\ trace[i].eff.samplers = << [handle |-> HandleOf(trace[i].ent), what |-> "sampler"] >>

\* the second draw of a frame, with the entity's own texture bound and nothing else
C16_Witness ==
    /\ IsApply
    /\ \E i, j \in TraceIdx :
          /\ i < j
          /\ trace[i].op = "draw"
          /\ trace[j].op = "draw"
          /\ Len(trace[j].eff.vertex_bufs) = 1
          /\ trace[j].eff.textures = << [handle |-> skybox[trace[j].ent][1].texture, what |-> "view"] >>
          /\ skybox[trace[j].ent][1].texture # AlbedoHandle

ApplyCalled == ret = None /\ ret' # None /\ ret'[1].op = "apply"

\* an apply of a pass that holds no mesh
C17_Uncompiled ==
    (IsApply /\ mesh = None) =>
       /\ \A i \in TraceIdx : trace[i].op \in {"panic_no_mesh", "panic_singular"}
       /\ ListsEmpty(effect)
       /\ IF SkyJoin(skybox) # <<>>
          THEN /\ ret[1].outcome = "panicked"
               /\ ~SingularCamera =>
                     trace = << Event("panic_no_mesh", SkyJoin(skybox)[1], effect, None, None) >>
          ELSE /\ ret[1].outcome = "returned" <=> ~SingularCamera
               /\ ~SingularCamera => trace = <<>>

C17_Step == (ApplyCalled /\ mesh = None) => effect' = effect

\* C17: a new DrawSkyBox holds no mesh; an apply of a pass without a mesh issues no bind,
\* upload or draw and leaves the effect unchanged; it aborts with a panic at the first
\* skybox entity it meets, and with no skybox entity in the scene it does nothing and
\* returns (the camera being invertible; a singular one aborts the frame before the loop).
C17_UncompiledApply == (mesh = None) /\ []C17_Uncompiled /\ [][C17_Step]_vars

\* a frame of a pass without a mesh, with a camera and no skybox entity: nothing happened
C17_Witness ==
    /\ IsApply
    /\ mesh = None
    /\ ret[1].camera # None
    /\ SkyJoin(skybox) = <<>>
    /\ ret[1].outcome = "returned"
    /\ trace = <<>>

C18_Step == ApplyCalled => UNCHANGED <<active, camera, global, skybox, storage, pending, mesh>>

\* the frame reflects the skybox components as they are now: whatever apply did, it did
\* for an entity that carries a SkyBox now, and a frame that ran to its end with every
\* buffer ready drew exactly the entities that carry one now
C18_FreshJoin ==
    IsApply =>
       /\ \A i \in TraceIdx :
             trace[i].op # "panic_singular" => skybox[trace[i].ent] # None
       /\ (ret[1].outcome = "returned" /\ \A i \in TraceIdx : trace[i].op # "buffer_none")
             => DrawnEnts = SkyJoin(skybox)

\* C18: apply changes nothing but the effect and what it hands to the encoder: the
\* active-camera reference, the camera, transform and skybox components, the asset store
\* (with its pending loads) and the pass's mesh are after the call what they were before;
\* the skybox entities are those of the current frame, an entity added or removed since
\* the frame before being drawn or not accordingly.
C18_ApplyReadOnly == [][C18_Step]_vars /\ []C18_FreshJoin

\* a frame that drew the second skybox entity only, the first carrying no SkyBox
C18_Witness ==
    /\ IsApply
    /\ ret[1].outcome = "returned"
    /\ skybox[1] = None
    /\ DrawnEnts = << 3 >>

=============================================================================
